---- MODULE Spec2Model ----
(***************************************************************************)
(* ML-KEM-768 (mlkem.py, shakestream.py, test_compress.py) as state        *)
(* machines.  Python lists and byte strings are sequences; the element the *)
(* source writes x[i] is x[i + 1] here.  Python integers are unbounded,    *)
(* so a product of three residues is reduced after the first              *)
(* multiplication to stay inside 32-bit integers; the residue modulo Q is  *)
(* the one the source computes.                                            *)
(***************************************************************************)
EXTENDS Integers, Sequences, FiniteSets, TLC

VARIABLES
  cpc, cd, cx, cy,                      \* compress(d, [x]) call of test_compress.py
  npc, na, nb, nta, ntb, nst,           \* ntt / ntt_mul / ntt_inv pipeline of mlkem.py __main__
  oracle,                               \* which function hashlib's SHAKE-256 is on PRF queries
  stream, sout, stotal,                 \* a ShakeStream, the bytes its reads returned, their n summed
  spc, smp,                             \* one call of sample_ntt: position and loop state
  kpc, keys, enc, wire, dec,            \* ML-KEM: keygen, encaps, the ciphertext in flight, decaps
  pke                                   \* the last direct call of a K-PKE operation

cvars == <<cpc, cd, cx, cy>>
nvars == <<npc, na, nb, nta, ntb, nst>>
svars == <<stream, sout, stotal>>
pvars == <<spc, smp>>
kvars == <<kpc, keys, enc, wire, dec>>
vars == <<cvars, nvars, oracle, svars, pvars, kvars, pke>>

----------------------------------------------------------------------------
(* ML-KEM-768 params *)

N == 256
Q == 3329
K == 3
ETA1 == 2
ETA2 == 2
DU == 10
DV == 4

(* bounds of the model *)
MaxPoly == 2          \* input polynomials PolyIn(0) .. PolyIn(MaxPoly)
MaxStream == 1        \* SHAKE inputs SeedBytes(0) .. SeedBytes(MaxStream) of the stream tests
MaxRead == 70         \* largest n of one ShakeStream.read(n)
MaxTotal == 140       \* reads stop once this many bytes were returned
MaxSampleReads == 300 \* sample_ntt is followed for this many 3-byte reads
MaxKeySeed == 1       \* key generation seeds
MaxMsgSeed == 1       \* encapsulation seeds
MaxRaw == 6           \* raw byte strings RawBytes(0, n) .. RawBytes(MaxRaw, n)

----------------------------------------------------------------------------
(* helpers for Python list idiom *)

At(s, i) == s[i + 1]
Slice(s, lo, hi) == SubSeq(s, lo + 1, IF hi > Len(s) THEN Len(s) ELSE hi)
Bit(n, i) == (n \div (2^i)) % 2

RECURSIVE SumRange(_, _, _)
(* sum(t[i] for i in range(lo, hi)), split in halves to keep the depth low *)
SumRange(t, lo, hi) ==
  IF hi <= lo THEN 0
  ELSE IF hi = lo + 1 THEN t[lo]
  ELSE LET mid == (lo + hi) \div 2
       IN SumRange(t, lo, mid) + SumRange(t, mid, hi)

RECURSIVE pow(_, _, _)
pow(base, e, mod) ==
  IF e = 0 THEN 1 % mod
  ELSE LET h == pow(base, e \div 2, mod)
       IN IF e % 2 = 0 THEN (h * h) % mod ELSE (((h * h) % mod) * base) % mod

bitrev7(n) ==
  64 * Bit(n, 0) + 32 * Bit(n, 1) + 16 * Bit(n, 2) + 8 * Bit(n, 3)
  + 4 * Bit(n, 4) + 2 * Bit(n, 5) + Bit(n, 6)

ZETA == [kk \in 0..127 |-> pow(17, bitrev7(kk), Q)]
GAMMA == [kk \in 0..127 |-> pow(17, 2 * bitrev7(kk) + 1, Q)]

----------------------------------------------------------------------------
(* polynomial arithmetic *)

Min(x, y) == IF x < y THEN x ELSE y

(* the elements of a list, evaluated once *)
List(f, n) == SubSeq(f, 1, n)

poly256_add(a, b) ==
  List([i \in 1..Min(Len(a), Len(b)) |-> (a[i] + b[i]) % Q], Min(Len(a), Len(b)))

poly256_sub(a, b) ==
  List([i \in 1..Min(Len(a), Len(b)) |-> (a[i] - b[i]) % Q], Min(Len(a), Len(b)))

ntt_add(a, b) == poly256_add(a, b)

(* c[n] after the double loop: the sum of a[j] * b[i] over i + j = n *)
SlowMulConv(a, b, n) ==
  LET lo == IF n > 255 THEN n - 255 ELSE 0
      hi == IF n > 255 THEN 255 ELSE n
      term == [i \in lo..hi |-> (At(a, n - i) * At(b, i)) % Q]
  IN SumRange(term, lo, hi + 1) % Q

poly256_slow_mul(a, b) ==
  [i \in 1..256 |->
     IF i - 1 < 255
     THEN (SlowMulConv(a, b, i - 1) - SlowMulConv(a, b, i - 1 + 256)) % Q
     ELSE SlowMulConv(a, b, i - 1)]

----------------------------------------------------------------------------
(* ntt: the running state of one call; reads holds the k of every ZETA[k] *)
(* looked up so far                                                      *)

(* ntt with the counter started at 0, as range() would *)
ntt_init_k0(f_in) ==
  [f_out |-> f_in, k |-> 0, log2len |-> 7, start |-> 0, reads |-> {}]

ntt_init(f_in) ==
  [f_out |-> f_in, k |-> 1, log2len |-> 7, start |-> 0, reads |-> {}]

(* the inner loop over j of one block: the pairs (j, j + length) are disjoint *)
ntt_butterflies(f, zeta, start, length) ==
  LET t == [j \in 1..length |-> (zeta * f[start + j + length]) % Q]
  IN SubSeq(f, 1, start)
     \o [j \in 1..length |-> (f[start + j] + t[j]) % Q]
     \o [j \in 1..length |-> (f[start + j] - t[j]) % Q]
     \o SubSeq(f, start + 2 * length + 1, Len(f))

(* one pass of the body of "for start in range(0, 256, 2 * length)" *)
ntt_block(st) ==
  LET length == 2^(st.log2len)
      zeta == ZETA[st.k]
      last == st.start + 2 * length >= 256
  IN [f_out |-> ntt_butterflies(st.f_out, zeta, st.start, length),
      k |-> st.k + 1,
      log2len |-> IF last THEN st.log2len - 1 ELSE st.log2len,
      start |-> IF last THEN 0 ELSE st.start + 2 * length,
      reads |-> st.reads \cup {st.k}]

ntt_running(st) == st.log2len >= 1

RECURSIVE ntt_layer(_)
ntt_layer(st) ==
  LET s2 == ntt_block(st) IN IF s2.start = 0 THEN s2 ELSE ntt_layer(s2)

RECURSIVE ntt_loop(_)
ntt_loop(st) == IF ntt_running(st) THEN ntt_loop(ntt_layer(st)) ELSE st

ntt(f_in) == ntt_loop(ntt_init(f_in)).f_out

(* ntt_inv *)

ntt_inv_init(f_in) ==
  [f_out |-> f_in, k |-> 127, log2len |-> 1, start |-> 0, reads |-> {}]

ntt_inv_butterflies(f, zeta, start, length) ==
  SubSeq(f, 1, start)
  \o [j \in 1..length |-> (f[start + j] + f[start + j + length]) % Q]
  \o [j \in 1..length |-> (zeta * (f[start + j + length] - f[start + j])) % Q]
  \o SubSeq(f, start + 2 * length + 1, Len(f))

ntt_inv_block(st) ==
  LET length == 2^(st.log2len)
      zeta == ZETA[st.k]
      last == st.start + 2 * length >= 256
  IN [f_out |-> ntt_inv_butterflies(st.f_out, zeta, st.start, length),
      k |-> st.k - 1,
      log2len |-> IF last THEN st.log2len + 1 ELSE st.log2len,
      start |-> IF last THEN 0 ELSE st.start + 2 * length,
      reads |-> st.reads \cup {st.k}]

ntt_inv_running(st) == st.log2len < 8

(* the closing loop: f_out[i] = (f_out[i] * 3303) % Q *)
ntt_inv_scale(f) == List([i \in 1..256 |-> (f[i] * 3303) % Q], 256)

RECURSIVE ntt_inv_layer(_)
ntt_inv_layer(st) ==
  LET s2 == ntt_inv_block(st) IN IF s2.start = 0 THEN s2 ELSE ntt_inv_layer(s2)

RECURSIVE ntt_inv_loop(_)
ntt_inv_loop(st) == IF ntt_inv_running(st) THEN ntt_inv_loop(ntt_inv_layer(st)) ELSE st

ntt_inv(f_in) == ntt_inv_scale(ntt_inv_loop(ntt_inv_init(f_in)).f_out)

(* ntt_mul with the ZETA table where GAMMA belongs *)
ntt_mul_zeta(a, b) ==
  List([n \in 1..256 |->
     LET i == (n - 1) \div 2
         a0 == At(a, 2 * i)
         a1 == At(a, 2 * i + 1)
         b0 == At(b, 2 * i)
         b1 == At(b, 2 * i + 1)
     IN IF (n - 1) % 2 = 0
        THEN (a0 * b0 + ((a1 * b1) % Q) * ZETA[i]) % Q
        ELSE (a0 * b1 + a1 * b0) % Q], 256)

ntt_mul(a, b) ==
  List([n \in 1..256 |->
     LET i == (n - 1) \div 2
         a0 == At(a, 2 * i)
         a1 == At(a, 2 * i + 1)
         b0 == At(b, 2 * i)
         b1 == At(b, 2 * i + 1)
     IN IF (n - 1) % 2 = 0
        THEN (a0 * b0 + ((a1 * b1) % Q) * GAMMA[i]) % Q
        ELSE (a0 * b1 + a1 * b0) % Q], 256)

----------------------------------------------------------------------------
(* compress / decompress *)

(* compress with the half rounded up: (Q + 1) // 2 for Q // 2 *)
compress_half_up(d, x) ==
  List([i \in 1..Len(x) |-> ((x[i] * 2^d + ((Q + 1) \div 2)) \div Q) % (2^d)], Len(x))

compress(d, x) ==
  List([i \in 1..Len(x) |-> ((x[i] * 2^d + (Q \div 2)) \div Q) % (2^d)], Len(x))

decompress(d, x) ==
  List([i \in 1..Len(x) |-> ((x[i] * Q + 2^(d - 1)) \div (2^d)) % Q], Len(x))

(* test_compress.py: round_half_up(Fraction(2**d * x, Q)) % 2**d, the floor   *)
(* of the rational 2^d x / Q + 1/2 taken over the common denominator 2Q      *)
round_half_up(num, den) == (2 * num + den) \div (2 * den)

compress_proper(d, x) == round_half_up(2^d * x, Q) % (2^d)

----------------------------------------------------------------------------
(* hashlib.  SHA3 and SHAKE are library code outside the repository: each    *)
(* is a fixed function from byte strings to byte streams, here an oracle     *)
(* that answers a query from a digest (Tag) of its input.  The variable      *)
(* oracle says which function SHAKE-256 happens to be on the PRF queries:    *)
(* "spread" answers with mixed bit patterns, "saturated" with the patterns   *)
(* 0x33.. and 0xCC.. whose every nibble is an extreme of the centered        *)
(* binomial sampler.  The same query always gets the same answer.            *)

Tag(data) ==
  LET w == [i \in 0..(Len(data) - 1) |-> ((i + 1) * (data[i + 1] + 1)) % 65521]
  IN SumRange(w, 0, Len(data)) % 65521

OracleByte(dom, t, i) ==
  ((t + 17 * dom) * (2 * i + 1) + 13 * i * i + 29 * (i \div 3) + 7) % 256

SaturatedByte(t) == IF Bit(t, 3) = 0 THEN 51 ELSE 204

(* hashlib.<fn>(data).digest(n), SHAKE's digest(n) being a prefix of one stream *)
Digest(key, n) ==
  LET t == Tag(key.data)
  IN SubSeq([i \in 1..n |->
       CASE key.fn = "sha3_512" -> OracleByte(1, t, i - 1)
         [] key.fn = "sha3_256" -> OracleByte(2, t, i - 1)
         [] key.fn = "shake_256" -> OracleByte(3, t, i - 1)
         [] key.fn = "shake_256_prf" ->
              IF oracle = "saturated" THEN SaturatedByte(t) ELSE OracleByte(4, t, i - 1)
         [] key.fn = "shake_128" -> OracleByte(5, t, i - 1)
         [] key.fn = "constant" -> key.data[1]], 1, n)

----------------------------------------------------------------------------
(* shakestream.py *)

ShakeStream(digestfn) == [digest |-> digestfn, buf |-> Digest(digestfn, 32), offset |-> 0]

(* read with "if" for "while": the buffer doubled at most once *)
ShakeStream_fill_once(self, n) ==
  IF self.offset + n > Len(self.buf)
  THEN [self EXCEPT !.buf = Digest(self.digest, Len(self.buf) * 2)]
  ELSE self

RECURSIVE ShakeStream_fill(_, _)
(* while self.offset + n > len(self.buf): self.buf = self.digest(len(self.buf) * 2) *)
ShakeStream_fill(self, n) ==
  IF self.offset + n > Len(self.buf)
  THEN ShakeStream_fill([self EXCEPT !.buf = Digest(self.digest, Len(self.buf) * 2)], n)
  ELSE self

(* read returns res and leaves the stream advanced *)
ShakeStream_read(self, n) ==
  LET filled == ShakeStream_fill(self, n)
  IN [res |-> Slice(filled.buf, filled.offset, filled.offset + n),
      self |-> [filled EXCEPT !.offset = filled.offset + n]]

----------------------------------------------------------------------------
(* crypto functions *)

mlkem_prf(eta, data, b) ==
  Digest([fn |-> "shake_256_prf", data |-> data \o <<b>>], 64 * eta)

mlkem_xof(data, i, j) ==
  ShakeStream([fn |-> "shake_128", data |-> data \o <<i, j>>])

mlkem_hash_H(data) == Digest([fn |-> "sha3_256", data |-> data], 32)

mlkem_hash_J(data) == Digest([fn |-> "shake_256", data |-> data], 32)

mlkem_hash_G(data) == Digest([fn |-> "sha3_512", data |-> data], 64)

----------------------------------------------------------------------------
(* encode/decode logic *)

bits_to_bytes(bits) ==
  [n \in 1..(Len(bits) \div 8) |->
     SumRange([j \in 0..7 |-> bits[8 * (n - 1) + j + 1] * 2^j], 0, 8)]

bytes_to_bits(data) ==
  SubSeq([n \in 1..(8 * Len(data)) |-> Bit(data[((n - 1) \div 8) + 1], (n - 1) % 8)],
         1, 8 * Len(data))

byte_encode(d, f) ==
  SubSeq(bits_to_bytes(
           SubSeq([n \in 1..(256 * d) |-> Bit(f[((n - 1) \div d) + 1], (n - 1) % d)],
                  1, 256 * d)),
         1, 32 * d)

byte_decode(d, data) ==
  LET bits == bytes_to_bits(data)
  IN SubSeq([i \in 1..256 |->
               SumRange([j \in 0..(d - 1) |-> bits[(i - 1) * d + j + 1] * 2^j], 0, d)],
            1, 256)

----------------------------------------------------------------------------
(* sampling *)

sample_ntt_init(xof) == [xof |-> xof, res |-> <<>>, reads |-> 0]

sample_ntt_running(st) == Len(st.res) < 256

(* a pass that appends d1 without the test d1 < Q *)
sample_ntt_pass_d1_kept(st) ==
  LET rd == ShakeStream_read(st.xof, 3)
      a == rd.res[1]
      b == rd.res[2]
      c == rd.res[3]
      d1 == ((b % 16) * 256) + a
      d2 == (c * 16) + (b \div 16)
      res1 == Append(st.res, d1)
      res2 == IF d2 < Q /\ Len(res1) < 256 THEN Append(res1, d2) ELSE res1
  IN [xof |-> rd.self, res |-> res2, reads |-> st.reads + 1]

(* one pass of the body of "while len(res) < 256" *)
sample_ntt_pass(st) ==
  LET rd == ShakeStream_read(st.xof, 3)
      a == rd.res[1]
      b == rd.res[2]
      c == rd.res[3]
      d1 == ((b % 16) * 256) + a
      d2 == (c * 16) + (b \div 16)
      res1 == IF d1 < Q THEN Append(st.res, d1) ELSE st.res
      res2 == IF d2 < Q /\ Len(res1) < 256 THEN Append(res1, d2) ELSE res1
  IN [xof |-> rd.self, res |-> res2, reads |-> st.reads + 1]

RECURSIVE sample_ntt_passes(_, _)
sample_ntt_passes(st, n) ==
  IF n = 0 \/ ~sample_ntt_running(st) THEN st
  ELSE sample_ntt_passes(sample_ntt_pass(st), n - 1)

RECURSIVE sample_ntt_loop(_)
sample_ntt_loop(st) ==
  IF sample_ntt_running(st) THEN sample_ntt_loop(sample_ntt_passes(st, 16)) ELSE st

sample_ntt(xof) == sample_ntt_loop(sample_ntt_init(xof)).res

sample_poly_cbd(eta, data) ==
  LET bits == bytes_to_bits(data)
  IN SubSeq([n \in 1..256 |->
       LET i == n - 1
           x == SumRange([j \in 0..(eta - 1) |-> bits[2 * i * eta + j + 1]], 0, eta)
           y == SumRange([j \in 0..(eta - 1) |-> bits[2 * i * eta + eta + j + 1]], 0, eta)
       IN (x - y) % Q], 1, 256)

----------------------------------------------------------------------------
(* K-PKE.  Each operation yields its return value with the polynomials it    *)
(* held on the way.                                                          *)

RECURSIVE reduce_ntt_add(_)
(* functools.reduce(ntt_add, terms) *)
reduce_ntt_add(terms) ==
  IF Len(terms) = 1 THEN terms[1]
  ELSE ntt_add(reduce_ntt_add(SubSeq(terms, 1, Len(terms) - 1)), terms[Len(terms)])

RECURSIVE join(_)
(* b"".join(parts) *)
join(parts) ==
  IF Len(parts) = 0 THEN <<>> ELSE join(SubSeq(parts, 1, Len(parts) - 1)) \o parts[Len(parts)]

(* the double loop with the XOF called on (rho, j, i) *)
kpke_ahat_j_i(rho) ==
  List([i \in 1..K |->
          List([j \in 1..K |-> sample_ntt(mlkem_xof(rho, j - 1, i - 1))], K)], K)

(* the double loop that fills ahat, in kpke_keygen and again in kpke_encrypt *)
kpke_ahat(rho) ==
  List([i \in 1..K |->
          List([j \in 1..K |-> sample_ntt(mlkem_xof(rho, i - 1, j - 1))], K)], K)

kpke_keygen(seed) ==
  LET return(rho, ahat, shat, ehat, that) ==
        [ek_pke |-> join(List([i \in 1..K |-> byte_encode(12, that[i])], K)) \o rho,
         dk_pke |-> join(List([i \in 1..K |-> byte_encode(12, shat[i])], K)),
         rho |-> rho, ahat |-> ahat, polys |-> shat \o ehat \o that]
      multiply(rho, ahat, shat, ehat) ==
        return(rho, ahat, shat, ehat,
               List([i \in 1..K |->
                       reduce_ntt_add(
                         List([j \in 1..K |-> ntt_mul(ahat[j][i], shat[j])], K)
                         \o <<ehat[i]>>)], K))
      sample(rho, sigma) ==
        multiply(rho, kpke_ahat(rho),
                 List([i \in 1..K |->
                         ntt(sample_poly_cbd(ETA1, mlkem_prf(ETA1, sigma, i - 1)))], K),
                 List([i \in 1..K |->
                         ntt(sample_poly_cbd(ETA1, mlkem_prf(ETA1, sigma, i - 1 + K)))], K))
      split(ghash) == sample(Slice(ghash, 0, 32), Slice(ghash, 32, 64))
  IN split(mlkem_hash_G(seed))

kpke_encrypt(ek_pke, m, r) ==
  LET return(rho, ahat, that, rhat, e1, e2, mu, u, v) ==
        [c |-> join(List([i \in 1..K |-> byte_encode(DU, compress(DU, u[i]))], K))
                 \o byte_encode(DV, compress(DV, v)),
         rho |-> rho, ahat |-> ahat,
         polys |-> that \o rhat \o e1 \o <<e2>> \o u \o <<mu, v>>]
      multiply(rho, ahat, that, rhat, e1, e2, mu) ==
        return(rho, ahat, that, rhat, e1, e2, mu,
               List([i \in 1..K |->
                       poly256_add(
                         ntt_inv(reduce_ntt_add(
                           List([j \in 1..K |-> ntt_mul(ahat[i][j], rhat[j])], K))),
                         e1[i])], K),
               poly256_add(
                 ntt_inv(reduce_ntt_add(
                   List([i \in 1..K |-> ntt_mul(that[i], rhat[i])], K))),
                 poly256_add(e2, mu)))
      sample(rho, that) ==
        multiply(rho, kpke_ahat(rho), that,
                 List([i \in 1..K |->
                         ntt(sample_poly_cbd(ETA1, mlkem_prf(ETA1, r, i - 1)))], K),
                 List([i \in 1..K |->
                         sample_poly_cbd(ETA2, mlkem_prf(ETA2, r, i - 1 + K))], K),
                 sample_poly_cbd(ETA2, mlkem_prf(ETA2, r, 2 * K)),
                 decompress(1, byte_decode(1, m)))
  IN sample(Slice(ek_pke, Len(ek_pke) - 32, Len(ek_pke)),
            List([i \in 1..K |->
                    byte_decode(12, Slice(ek_pke, (i - 1) * 128 * K, i * 128 * K))], K))

kpke_decrypt(dk_pke, c) ==
  LET return(u, v, shat, w) ==
        [m |-> byte_encode(1, compress(1, w)), polys |-> u \o <<v>> \o shat \o <<w>>]
      multiply(u, v, shat) ==
        return(u, v, shat,
               poly256_sub(v, ntt_inv(reduce_ntt_add(
                 List([i \in 1..K |-> ntt_mul(shat[i], ntt(u[i]))], K)))))
      decode(c1, c2) ==
        multiply(List([i \in 1..K |->
                         decompress(DU, byte_decode(DU,
                           Slice(c1, (i - 1) * 32 * DU, i * 32 * DU)))], K),
                 decompress(DV, byte_decode(DV, c2)),
                 List([i \in 1..K |->
                         byte_decode(12, Slice(dk_pke, (i - 1) * 384, i * 384))], K))
  IN decode(Slice(c, 0, 32 * DU * K), Slice(c, 32 * DU * K, Len(c)))

----------------------------------------------------------------------------
(* KEM time *)

(* mlkem_keygen with H(ek) left out of dk *)
mlkem_keygen_no_h(seed1, seed2) ==
  LET return(z, kp) ==
        [ek |-> kp.ek_pke, dk |-> kp.dk_pke \o kp.ek_pke \o z, pke |-> kp]
  IN return(seed1, kpke_keygen(seed2))

mlkem_keygen(seed1, seed2) ==
  LET return(z, kp) ==
        [ek |-> kp.ek_pke,
         dk |-> kp.dk_pke \o kp.ek_pke \o mlkem_hash_H(kp.ek_pke) \o z,
         pke |-> kp]
  IN return(seed1, kpke_keygen(seed2))

(* mlkem_encaps with the halves of G's output taken the other way round *)
mlkem_encaps_halves_swapped(ek, seed) ==
  LET return(k, ke) == [k |-> k, c |-> ke.c, pke |-> ke]
      encrypt(m, ghash) ==
        return(Slice(ghash, 32, 64), kpke_encrypt(ek, m, Slice(ghash, 0, 32)))
  IN encrypt(seed, mlkem_hash_G(seed \o mlkem_hash_H(ek)))

mlkem_encaps(ek, seed) ==
  LET return(k, ke) == [k |-> k, c |-> ke.c, pke |-> ke]
      encrypt(m, ghash) ==
        return(Slice(ghash, 0, 32), kpke_encrypt(ek, m, Slice(ghash, 32, 64)))
  IN encrypt(seed, mlkem_hash_G(seed \o mlkem_hash_H(ek)))

(* mlkem_decaps, in the three parts its steps are followed by *)

mlkem_decaps_mdash(c, dk) == kpke_decrypt(Slice(dk, 0, 384 * K), c).m

(* mlkem_decaps with z sliced where h lies *)
mlkem_decaps_cdash_z_at_h(c, dk, mdash) ==
  LET return(kdash, rdash, kbar, ke) ==
        [kdash |-> kdash, rdash |-> rdash, kbar |-> kbar, cdash |-> ke.c, pke |-> ke]
      encrypt(ek_pke, z, ghash) ==
        return(Slice(ghash, 0, 32), Slice(ghash, 32, 64), mlkem_hash_J(z \o c),
               kpke_encrypt(ek_pke, mdash, Slice(ghash, 32, 64)))
  IN encrypt(Slice(dk, 384 * K, 768 * K + 32),
             Slice(dk, 768 * K + 32, 768 * K + 64),
             mlkem_hash_G(mdash \o Slice(dk, 768 * K + 32, 768 * K + 64)))

mlkem_decaps_cdash(c, dk, mdash) ==
  LET return(kdash, rdash, kbar, ke) ==
        [kdash |-> kdash, rdash |-> rdash, kbar |-> kbar, cdash |-> ke.c, pke |-> ke]
      encrypt(ek_pke, z, ghash) ==
        return(Slice(ghash, 0, 32), Slice(ghash, 32, 64), mlkem_hash_J(z \o c),
               kpke_encrypt(ek_pke, mdash, Slice(ghash, 32, 64)))
  IN encrypt(Slice(dk, 384 * K, 768 * K + 32),
             Slice(dk, 768 * K + 64, 768 * K + 96),
             mlkem_hash_G(mdash \o Slice(dk, 768 * K + 32, 768 * K + 64)))

mlkem_decaps_ret(c, cdash, kbar, kdash) == IF cdash # c THEN kbar ELSE kdash

mlkem_decaps(c, dk) ==
  LET return(r) == mlkem_decaps_ret(c, r.cdash, r.kbar, r.kdash)
  IN return(mlkem_decaps_cdash(c, dk, mlkem_decaps_mdash(c, dk)))

----------------------------------------------------------------------------
(* inputs *)

(* the polynomials of the __main__ self-test and its neighbours *)
PolyIn(p) ==
  [i \in 1..256 |->
     (1024 * p + (i - 1) * (1 + 16 * (p \div 2)) + (p \div 2) * (i - 1) * (i - 1)) % Q]

(* a 32-byte seed, as os.urandom(32) or the caller may give it *)
SeedBytes(n) == List([i \in 1..32 |-> n % 256], 32)

(* an arbitrary byte string of a declared length *)
RawBytes(p, n) == List([i \in 1..n |-> (51 * p) % 256], n)

(* c with the byte at pos flipped *)
FlipByte(c, pos) == [c EXCEPT ![pos + 1] = 255 - c[pos + 1]]

AllBelowQ(polys) ==
  \A n \in 1..Len(polys) : \A i \in 1..Len(polys[n]) : polys[n][i] \in 0..(Q - 1)

----------------------------------------------------------------------------
(* test_compress.py: one call of compress, d over the test's range(12) and 12 *)

CompressOff == cpc = "off" /\ cd = 0 /\ cx = 0 /\ cy = 0

CompressInit == cpc = "call" /\ cd = 0 /\ cx = 0 /\ cy = 0

CompressCall ==
  /\ cpc = "call"
  /\ \E d \in 0..12, x \in 0..(Q - 1) :
       /\ cd' = d
       /\ cx' = x
       /\ cy' = compress(d, <<x>>)[1]
  /\ cpc' = "returned"
  /\ UNCHANGED <<nvars, oracle, svars, pvars, kvars, pke>>

----------------------------------------------------------------------------
(* mlkem.py __main__: ntt_inv(ntt_mul(ntt(a), ntt(b))), block by block *)

NttOff ==
  /\ npc = "off"
  /\ na = <<>> /\ nb = <<>> /\ nta = <<>> /\ ntb = <<>>
  /\ nst = ntt_init(<<>>)

NttInit ==
  /\ npc = "start"
  /\ na = <<>> /\ nb = <<>> /\ nta = <<>> /\ ntb = <<>>
  /\ nst = ntt_init(<<>>)

NttStart ==
  /\ npc = "start"
  /\ \E p \in 0..MaxPoly, r \in 0..MaxPoly :
       /\ na' = PolyIn(p)
       /\ nb' = PolyIn(r)
       /\ nst' = ntt_init(PolyIn(p))
  /\ npc' = "ntt_a"
  /\ UNCHANGED <<nta, ntb>>
  /\ UNCHANGED <<cvars, oracle, svars, pvars, kvars, pke>>

(* one block of ntt(a) *)
NttBlockA ==
  /\ npc = "ntt_a"
  /\ ntt_running(nst)
  /\ nst' = ntt_block(nst)
  /\ UNCHANGED <<npc, na, nb, nta, ntb>>
  /\ UNCHANGED <<cvars, oracle, svars, pvars, kvars, pke>>

NttReturnA ==
  /\ npc = "ntt_a"
  /\ ~ntt_running(nst)
  /\ nta' = nst.f_out
  /\ nst' = ntt_init(nb)
  /\ npc' = "ntt_b"
  /\ UNCHANGED <<na, nb, ntb>>
  /\ UNCHANGED <<cvars, oracle, svars, pvars, kvars, pke>>

NttBlockB ==
  /\ npc = "ntt_b"
  /\ ntt_running(nst)
  /\ nst' = ntt_block(nst)
  /\ UNCHANGED <<npc, na, nb, nta, ntb>>
  /\ UNCHANGED <<cvars, oracle, svars, pvars, kvars, pke>>

(* ntt(b) returns, ntt_mul runs and ntt_inv is entered *)
NttReturnB ==
  /\ npc = "ntt_b"
  /\ ~ntt_running(nst)
  /\ ntb' = nst.f_out
  /\ nst' = ntt_inv_init(ntt_mul(nta, nst.f_out))
  /\ npc' = "ntt_inv"
  /\ UNCHANGED <<na, nb, nta>>
  /\ UNCHANGED <<cvars, oracle, svars, pvars, kvars, pke>>

NttInvBlock ==
  /\ npc = "ntt_inv"
  /\ ntt_inv_running(nst)
  /\ nst' = ntt_inv_block(nst)
  /\ UNCHANGED <<npc, na, nb, nta, ntb>>
  /\ UNCHANGED <<cvars, oracle, svars, pvars, kvars, pke>>

NttInvReturn ==
  /\ npc = "ntt_inv"
  /\ ~ntt_inv_running(nst)
  /\ nst' = [nst EXCEPT !.f_out = ntt_inv_scale(nst.f_out)]
  /\ npc' = "done"
  /\ UNCHANGED <<na, nb, nta, ntb>>
  /\ UNCHANGED <<cvars, oracle, svars, pvars, kvars, pke>>

----------------------------------------------------------------------------
(* shakestream.py __main__: reads of any sizes against one digest *)

StreamOff ==
  /\ stream = ShakeStream([fn |-> "constant", data |-> <<0>>])
  /\ sout = <<>>
  /\ stotal = 0

StreamInit ==
  /\ \E n \in 0..MaxStream :
       stream = ShakeStream([fn |-> "shake_128", data |-> SeedBytes(n)])
  /\ sout = <<>>
  /\ stotal = 0

(* res += stream.read(n) *)
StreamRead ==
  /\ stotal < MaxTotal
  /\ \E n \in 0..MaxRead :
       \E rd \in {ShakeStream_read(stream, n)} :
          /\ stream' = rd.self
          /\ sout' = sout \o rd.res
          /\ stotal' = stotal + n
  /\ UNCHANGED <<cvars, nvars, oracle, pvars, kvars, pke>>

----------------------------------------------------------------------------
(* sample_ntt on a stream, pass by pass *)

SampleOff ==
  /\ spc = "off"
  /\ smp = sample_ntt_init(ShakeStream([fn |-> "constant", data |-> <<0>>]))

(* the streams sample_ntt is called on: SHAKE-128 outputs and the two constant streams *)
SampleInit ==
  /\ spc = "loop"
  /\ \E digestfn \in {[fn |-> "shake_128", data |-> SeedBytes(n)] : n \in 0..MaxStream}
                     \cup {[fn |-> "constant", data |-> <<0>>],
                           [fn |-> "constant", data |-> <<255>>]} :
       smp = sample_ntt_init(ShakeStream(digestfn))

SamplePass ==
  /\ spc = "loop"
  /\ sample_ntt_running(smp)
  /\ smp.reads < MaxSampleReads
  /\ smp' = sample_ntt_pass(smp)
  /\ UNCHANGED spc
  /\ UNCHANGED <<cvars, nvars, oracle, svars, kvars, pke>>

SampleReturn ==
  /\ spc = "loop"
  /\ ~sample_ntt_running(smp)
  /\ spc' = "returned"
  /\ UNCHANGED smp
  /\ UNCHANGED <<cvars, nvars, oracle, svars, kvars, pke>>

----------------------------------------------------------------------------
(* ML-KEM: keygen, encaps, a ciphertext in flight, decaps *)

NoKeys == [ek |-> <<>>, dk |-> <<>>]
NoEnc == [m |-> <<>>, k |-> <<>>, c |-> <<>>]
NoDec == [c |-> <<>>, mdash |-> <<>>, kdash |-> <<>>, rdash |-> <<>>,
          kbar |-> <<>>, cdash |-> <<>>, ret |-> <<>>]

KemOff ==
  /\ kpc = "off" /\ keys = NoKeys /\ enc = NoEnc /\ wire = <<>> /\ dec = NoDec

KemInit ==
  /\ kpc = "start" /\ keys = NoKeys /\ enc = NoEnc /\ wire = <<>> /\ dec = NoDec

MlkemKeygen ==
  /\ kpc = "start"
  /\ \E n \in 0..MaxKeySeed :
       \E kg \in {mlkem_keygen(SeedBytes(255 - n), SeedBytes(n))} :
          keys' = [ek |-> kg.ek, dk |-> kg.dk]
  /\ kpc' = "keys"
  /\ UNCHANGED <<oracle, enc, wire, dec>>
  /\ UNCHANGED <<cvars, nvars, svars, pvars, pke>>

(* the sender encapsulates to ek and sends c *)
MlkemEncaps ==
  /\ kpc = "keys"
  /\ \E n \in 0..MaxMsgSeed :
       \E e \in {mlkem_encaps(keys.ek, SeedBytes(n))} :
          /\ enc' = [m |-> SeedBytes(n), k |-> e.k, c |-> e.c]
          /\ wire' = e.c
  /\ kpc' = "sent"
  /\ UNCHANGED <<oracle, keys, dec>>
  /\ UNCHANGED <<cvars, nvars, svars, pvars, pke>>

(* the ciphertext of an encapsulation with another seed arrives instead *)
MlkemEncapsOther ==
  /\ kpc = "sent"
  /\ \E n \in 0..MaxMsgSeed :
       /\ SeedBytes(n) # enc.m
       /\ wire' = mlkem_encaps(keys.ek, SeedBytes(n)).c
  /\ kpc' = "replaced"
  /\ UNCHANGED <<oracle, keys, enc, dec>>
  /\ UNCHANGED <<cvars, nvars, svars, pvars, pke>>

(* one byte of the ciphertext is flipped on the way: the first or the last *)
WireFlip ==
  /\ kpc = "sent"
  /\ \E pos \in {0, Len(wire) - 1} : wire' = FlipByte(wire, pos)
  /\ kpc' = "replaced"
  /\ UNCHANGED <<oracle, keys, enc, dec>>
  /\ UNCHANGED <<cvars, nvars, svars, pvars, pke>>

(* mlkem_decaps up to mdash = kpke_decrypt(dk_pke, c) *)
MlkemDecapsDecrypt ==
  /\ kpc \in {"sent", "replaced"}
  /\ dec' = [NoDec EXCEPT !.c = wire, !.mdash = mlkem_decaps_mdash(wire, keys.dk)]
  /\ kpc' = "decrypted"
  /\ UNCHANGED <<oracle, keys, enc, wire>>
  /\ UNCHANGED <<cvars, nvars, svars, pvars, pke>>

(* ... up to cdash = kpke_encrypt(ek_pke, mdash, rdash) *)
MlkemDecapsEncrypt ==
  /\ kpc = "decrypted"
  /\ \E r \in {mlkem_decaps_cdash(dec.c, keys.dk, dec.mdash)} :
       dec' = [dec EXCEPT !.kdash = r.kdash, !.rdash = r.rdash, !.kbar = r.kbar,
                          !.cdash = r.cdash]
  /\ kpc' = "reencrypted"
  /\ UNCHANGED <<oracle, keys, enc, wire>>
  /\ UNCHANGED <<cvars, nvars, svars, pvars, pke>>

(* ... and the return of kbar or kdash *)
MlkemDecapsReturn ==
  /\ kpc = "reencrypted"
  /\ dec' = [dec EXCEPT !.ret = mlkem_decaps_ret(dec.c, dec.cdash, dec.kbar, dec.kdash)]
  /\ kpc' = "returned"
  /\ UNCHANGED <<oracle, keys, enc, wire>>
  /\ UNCHANGED <<cvars, nvars, svars, pvars, pke>>

----------------------------------------------------------------------------
(* K-PKE called directly, on any byte strings of the declared lengths *)

NoPke == [fn |-> "", rho |-> <<>>, ahat |-> <<>>, polys |-> <<>>]

PkeOff == pke = NoPke

PkeKeygen ==
  /\ pke.fn = ""
  /\ \E p \in 0..MaxRaw :
       \E r \in {kpke_keygen(RawBytes(p, 32))} :
          pke' = [fn |-> "kpke_keygen", rho |-> r.rho, ahat |-> r.ahat, polys |-> r.polys]
  /\ UNCHANGED <<cvars, nvars, oracle, svars, pvars, kvars>>

PkeEncrypt ==
  /\ pke.fn = ""
  /\ \E p \in 0..MaxRaw, q \in 0..MaxRaw :
       \E r \in {kpke_encrypt(RawBytes(p, 1184), RawBytes(q, 32), RawBytes(p + q, 32))} :
          pke' = [fn |-> "kpke_encrypt", rho |-> r.rho, ahat |-> r.ahat, polys |-> r.polys]
  /\ UNCHANGED <<cvars, nvars, oracle, svars, pvars, kvars>>

PkeDecrypt ==
  /\ pke.fn = ""
  /\ \E p \in 0..MaxRaw, q \in 0..MaxRaw :
       \E r \in {kpke_decrypt(RawBytes(p, 1152), RawBytes(q, 1088))} :
          pke' = [fn |-> "kpke_decrypt", rho |-> <<>>, ahat |-> <<>>, polys |-> r.polys]
  /\ UNCHANGED <<cvars, nvars, oracle, svars, pvars, kvars>>

----------------------------------------------------------------------------
(* specifications: each runs one part and leaves the others off *)

OracleOff == oracle = "spread"

InitCompress ==
  CompressInit /\ NttOff /\ OracleOff /\ StreamOff /\ SampleOff /\ KemOff /\ PkeOff

NextCompress == CompressCall

SpecCompress == InitCompress /\ [][NextCompress]_vars

InitNtt ==
  NttInit /\ CompressOff /\ OracleOff /\ StreamOff /\ SampleOff /\ KemOff /\ PkeOff

NextNtt ==
  \/ NttStart
  \/ NttBlockA
  \/ NttReturnA
  \/ NttBlockB
  \/ NttReturnB
  \/ NttInvBlock
  \/ NttInvReturn

SpecNtt == InitNtt /\ [][NextNtt]_vars

InitStream ==
  StreamInit /\ CompressOff /\ NttOff /\ OracleOff /\ SampleOff /\ KemOff /\ PkeOff

NextStream == StreamRead

SpecStream == InitStream /\ [][NextStream]_vars

InitSample ==
  SampleInit /\ CompressOff /\ NttOff /\ OracleOff /\ StreamOff /\ KemOff /\ PkeOff

NextSample ==
  \/ SamplePass
  \/ SampleReturn

SpecSample == InitSample /\ [][NextSample]_vars

(* the KEM runs under either SHAKE-256 *)
InitKem ==
  /\ oracle \in {"spread", "saturated"}
  /\ KemInit /\ CompressOff /\ NttOff /\ StreamOff /\ SampleOff /\ PkeOff

NextKem ==
  \/ MlkemKeygen
  \/ MlkemEncaps
  \/ MlkemEncapsOther
  \/ WireFlip
  \/ MlkemDecapsDecrypt
  \/ MlkemDecapsEncrypt
  \/ MlkemDecapsReturn

SpecKem == InitKem /\ [][NextKem]_vars

InitPke ==
  PkeOff /\ CompressOff /\ NttOff /\ OracleOff /\ StreamOff /\ SampleOff /\ KemOff

NextPke ==
  \/ PkeKeygen
  \/ PkeEncrypt
  \/ PkeDecrypt

SpecPke == InitPke /\ [][NextPke]_vars

----------------------------------------------------------------------------
(* claims *)

(* z, the last 32 bytes of dk *)
LastBytes(s, n) == SubSeq(s, Len(s) - n + 1, Len(s))

C2_RejectsOtherCiphertexts ==
  (kpc = "returned" /\ dec.c # enc.c)
    => dec.ret = mlkem_hash_J(LastBytes(keys.dk, 32) \o dec.c)

(* C2, amended: a ciphertext c that differs from the ciphertext of           *)
(* mlkem_encaps(ek, m') for the m' that K-PKE decrypts c to, so any c that   *)
(* no encapsulation to ek returns, decapsulates to J(z || c).                *)
C2_RejectsNonEncapsCiphertexts ==
  (kpc = "returned" /\ dec.c # mlkem_encaps(keys.ek, dec.mdash).c)
    => dec.ret = mlkem_hash_J(LastBytes(keys.dk, 32) \o dec.c)

C2_Witness ==
  /\ kpc = "returned"
  /\ dec.c # enc.c
  /\ dec.c # mlkem_encaps(keys.ek, dec.mdash).c
  /\ dec.ret = mlkem_hash_J(LastBytes(keys.dk, 32) \o dec.c)

(* C3: ek has 1184 bytes and dk 2400; the shared secret of an encapsulation  *)
(* has 32 bytes and its ciphertext 1088; decapsulation returns 32 bytes on   *)
(* the accepting and on the rejecting branch.                                *)
C3_DeclaredLengths ==
  /\ kpc \notin {"off", "start"} => Len(keys.ek) = 1184 /\ Len(keys.dk) = 2400
  /\ kpc \notin {"off", "start", "keys"} =>
       Len(enc.k) = 32 /\ Len(enc.c) = 1088 /\ Len(wire) = 1088
  /\ kpc = "returned" => Len(dec.ret) = 32

C3_Witness ==
  /\ kpc = "returned"
  /\ dec.cdash # dec.c
  /\ Len(dec.ret) = 32
  /\ Len(keys.dk) = 2400
  /\ Len(enc.c) = 1088

(* C4: ntt_inv(ntt_mul(ntt(a), ntt(b))) is poly256_slow_mul(a, b), the       *)
(* product modulo X^256 + 1 and modulo q.                                    *)
C4_NttMulIsSlowMul ==
  npc = "done" => nst.f_out = poly256_slow_mul(na, nb)

C4_Witness ==
  npc = "done" /\ na = PolyIn(2) /\ nb = PolyIn(1) /\ nst.f_out = poly256_slow_mul(na, nb)

(* C5: after any sequence of read(n_1), ..., read(n_k) the returned bytes,   *)
(* concatenated, are the digest of length n_1 + ... + n_k.                   *)
C5_ReadsAreOneDigest ==
  sout = Digest(stream.digest, stotal)

C5_Witness ==
  stotal > 128 /\ Len(stream.buf) = 256 /\ sout = Digest(stream.digest, stotal)

(* C6: compress(d, [x])[0] is round-half-up of 2^d x / q, taken mod 2^d, for *)
(* every x in [0, q) and d in [1, 12].                                       *)
C6_CompressClosedForm ==
  cpc = "returned" => cy = compress_proper(cd, cx)

C6_Witness == cpc = "returned" /\ cd = 1 /\ cx = Q - 1 /\ cy = 0

(* C7, as the spec states it: ahat[i][j] is sample_ntt on the XOF stream of  *)
(* rho || byte(j) || byte(i).                                                *)
C7_AhatColumnByteFirst ==
  pke.fn \in {"kpke_keygen", "kpke_encrypt"} =>
    \A i \in 0..(K - 1), j \in 0..(K - 1) :
       At(At(pke.ahat, i), j) = sample_ntt(mlkem_xof(pke.rho, j, i))

(* C7, amended: in kpke_keygen and kpke_encrypt ahat[i][j] is sample_ntt on  *)
(* the XOF stream of rho || byte(i) || byte(j): the first index of the list  *)
(* is the first byte appended to rho.                                        *)
C7_AhatRowByteFirst ==
  pke.fn \in {"kpke_keygen", "kpke_encrypt"} =>
    \A i \in 0..(K - 1), j \in 0..(K - 1) :
       At(At(pke.ahat, i), j) = sample_ntt(mlkem_xof(pke.rho, i, j))

C7_Witness ==
  /\ pke.fn = "kpke_encrypt"
  /\ At(At(pke.ahat, 0), 1) = sample_ntt(mlkem_xof(pke.rho, 0, 1))
  /\ At(At(pke.ahat, 0), 1) # At(At(pke.ahat, 1), 0)

(* C8, as the spec states it: one call of ntt reads 128 values of ZETA, and  *)
(* its counter k, started at 1, is 128 when the last layer finishes.         *)
C8_NttReads128 ==
  (npc \in {"ntt_a", "ntt_b"} /\ ~ntt_running(nst))
    => Cardinality(nst.reads) = 128 /\ nst.k = 128

(* C8, amended: one call of ntt reads the 127 values ZETA[1] .. ZETA[127],   *)
(* one per block of each of the seven layers; k starts at 1 and is 128 when  *)
(* the last layer finishes.                                                  *)
C8_NttReads127 ==
  npc \in {"ntt_a", "ntt_b"} =>
    /\ nst.reads = 1..(nst.k - 1)
    /\ nst.log2len = 7 /\ nst.start = 0 => nst.k = 1
    /\ ~ntt_running(nst) => nst.reads = 1..127 /\ nst.k = 128

C8_Witness ==
  npc = "ntt_a" /\ ~ntt_running(nst) /\ Cardinality(nst.reads) = 127 /\ nst.k = 128

(* the 12-bit candidates d1, d2 of the first "reads" 3-byte chunks of a stream *)
Candidates(digestfn, reads) ==
  LET data == Digest(digestfn, 3 * reads)
  IN List([n \in 1..(2 * reads) |->
             LET chunk == (n - 1) \div 2
             IN IF n % 2 = 1
                THEN (At(data, 3 * chunk + 1) % 16) * 256 + At(data, 3 * chunk)
                ELSE At(data, 3 * chunk + 2) * 16 + (At(data, 3 * chunk + 1) \div 16)],
          2 * reads)

BelowQ(d) == d < Q

(* C9, as the spec states it: the rejection loop ends with 256 accepted      *)
(* coefficients after a bounded number of reads, whatever bytes the stream   *)
(* yields.                                                                   *)
C9_EndsOnAnyStream ==
  smp.reads >= MaxSampleReads => Len(smp.res) = 256

(* C9, amended: after any number of reads sample_ntt holds the candidates    *)
(* below q read so far, up to the first 256 of them; it returns when and     *)
(* only when there are 256, after at least 128 reads; nothing bounds the     *)
(* reads: on the stream of 0xFF bytes no candidate is accepted and the loop  *)
(* goes on.                                                                  *)
C9_EndsOnceAccepted256 ==
  spc \in {"loop", "returned"} =>
    /\ smp.res = Slice(SelectSeq(Candidates(smp.xof.digest, smp.reads), BelowQ), 0, 256)
    /\ spc = "returned" => Len(smp.res) = 256 /\ smp.reads >= 128
    /\ smp.xof.digest = [fn |-> "constant", data |-> <<255>>] =>
         smp.res = <<>> /\ spc = "loop"

C9_Witness ==
  /\ spc = "loop"
  /\ smp.xof.digest = [fn |-> "constant", data |-> <<255>>]
  /\ smp.reads = MaxSampleReads
  /\ smp.res = <<>>

(* C10: every coefficient held by kpke_keygen, kpke_encrypt and kpke_decrypt *)
(* is in [0, q), for all byte strings of the declared lengths.               *)
C10_CoefficientsBelowQ ==
  AllBelowQ(pke.polys)

====
